---- MODULE Spec2Model ----
(***************************************************************************)
(* Model of the tx_fun transaction engine: the per-client account state    *)
(* machine (client.rs), the routing of a transaction to its account        *)
(* (tx.rs) and the row loop of the engine (engine.rs).                     *)
(***************************************************************************)
EXTENDS Integers, Sequences, FiniteSets, TLC

\* ------------------------------------------------------------------ bounds
\* Largest value of the balance word.  The program's balances are u64; the
\* model keeps the wrap-around of the word at a width TLC can enumerate.
U64Max == 3

\* Number of rows read from the input before the end of the file.
MaxRows == 4

\* Number of operations called on one account by itself.
MaxOps == 6

\* ------------------------------------------------------------- constants
\* Number of fractional digits of an amount (amount.rs: round(4), new(v, 4)).
Digits == 4

Modulus == U64Max + 1

\* Client ids (u16) and transaction ids (u32) that occur in the input.
ClientIds == {1, 2}
TxIds == {1, 2}

\* ---------------------------------------------------------------- Amount
\* A decimal amount as the pair bigdecimal keeps: value = int / 10^scale.
\* The amounts of the input: a negative one, zero, a small one, a large one
\* (two of them exceed the balance word) and one that does not fit the word.
Amount == [int : {-1, 0, 1, U64Max - 1, U64Max + 1}, scale : {Digits}]

RECURSIVE Pow10(_)
Pow10(n) == IF n = 0 THEN 1 ELSE 10 * Pow10(n - 1)

\* BigDecimal::round(digits): an amount that has at most `digits` fractional
\* digits is returned as it is; a longer one is cut to `digits` and rounded
\* half up.
round(a, digits) ==
    IF a.scale <= digits THEN a
    ELSE LET p == Pow10(a.scale - digits)
             q == a.int \div p
             r == a.int % p
         IN [int |-> IF 2 * r >= p THEN q + 1 ELSE q, scale |-> digits]

\* AmountConv::to_u64 (bigdec): the count of minor units, or an error.
to_u64(a) ==
    IF a.int < 0 THEN [err |-> "NegativeAmount", val |-> 0]
    ELSE LET bigint == round(a, Digits).int
         IN IF bigint > U64Max THEN [err |-> "ConversionError", val |-> 0]
            ELSE [err |-> "None", val |-> bigint]

\* AmountConv::from_u64
from_u64(v) == [int |-> v, scale |-> Digits]

\* The value of a sequence of digits, and the `len` digits of a value.
RECURSIVE DigitsValue(_)
DigitsValue(ds) ==
    IF ds = <<>> THEN 0
    ELSE 10 * DigitsValue(SubSeq(ds, 1, Len(ds) - 1)) + ds[Len(ds)]

FracDigits(n, len) == [i \in 1 .. len |-> (n \div Pow10(len - i)) % 10]

\* The amount field of a row: a sign, the digits before the point as a
\* number, and the digits after it.  The fields of the input: amounts near
\* zero written with no digit after the point up to one digit more than an
\* amount keeps.
Texts ==
    [neg : BOOLEAN, whole : {0, 1},
     frac : UNION {[1 .. n -> {0, 1, 2, 5}] : n \in 0 .. Digits + 1}]

\* Deserialize for BigDecimal (FromStr): the digits become the integer and
\* the number of digits after the point becomes the scale; zeros at the end
\* are kept.
parse(text) ==
    LET n == Len(text.frac)
        abs == text.whole * Pow10(n) + DigitsValue(text.frac)
    IN [int |-> IF text.neg THEN 0 - abs ELSE abs, scale |-> n]

\* Display for BigDecimal with a precision: the digits before the point,
\* then the digits after it, filled with zeros or cut to the precision.
Display(a, precision) ==
    LET abs == IF a.int < 0 THEN 0 - a.int ELSE a.int
        after == FracDigits(abs % Pow10(a.scale), a.scale)
    IN [neg |-> a.int < 0,
        whole |-> abs \div Pow10(a.scale),
        frac |-> [i \in 1 .. precision |->
                    IF i <= a.scale THEN after[i] ELSE 0]]

\* AmountConv::format
format(v) == Display(from_u64(v), Digits)

VARIABLES
    clients,          \* Engine.clients: client id -> Client, a partial map
    rows,             \* number of rows read from the input so far
    pc,               \* "reading", "done" (output written) or "panicked"
    overflow_checks,  \* the build: TRUE traps on integer overflow, FALSE wraps
    last,             \* what process_row returned for the row handled last
    conversion        \* an amount on its way through the conversions of Amount

vars == <<clients, rows, pc, overflow_checks, last, conversion>>

\* ----------------------------------------------------- integer arithmetic
Fits(x) == 0 <= x /\ x <= U64Max

\* The value a u64 holds after an addition or subtraction that wraps.
Wrap(x) == (x + Modulus) % Modulus

\* An addition or subtraction that leaves the u64 range panics in a build
\* with overflow checks and wraps in a build without them.
Trap(x) == overflow_checks /\ ~Fits(x)

\* HashMap::insert
Insert(m, k, v) == [x \in (DOMAIN m) \cup {k} |-> IF x = k THEN v ELSE m[x]]

\* ---------------------------------------------------------------- Client
DepositState == {"Ok", "Disputed", "ChargedBack"}

\* What an operation of Client gives back: the Result it returns, the
\* account it leaves, and whether it panicked on the way.
Done(c) == [res |-> "Ok", acct |-> c, panic |-> FALSE]
Fail(c, e) == [res |-> e, acct |-> c, panic |-> FALSE]
Panic(c) == [res |-> "Panic", acct |-> c, panic |-> TRUE]

create(client_id) ==
    [client_id |-> client_id, available |-> 0, held |-> 0, total |-> 0,
     locked |-> FALSE, deposits |-> <<>>]

deposit(c, tx_id, amount) ==
    LET conv == to_u64(amount) IN
    IF conv.err # "None" THEN Fail(c, conv.err)
    ELSE
      LET amt == conv.val
          c1 == [c EXCEPT !.deposits =
                    Insert(@, tx_id, [amount |-> amt, state |-> "Ok"])]
      IN IF Trap(c1.available + amt) THEN Panic(c1)
         ELSE
           LET c2 == [c1 EXCEPT !.available = Wrap(@ + amt)] IN
           IF Trap(c2.total + amt) THEN Panic(c2)
           ELSE Done([c2 EXCEPT !.total = Wrap(@ + amt)])


\* withdraw without its check of the lock.
withdraw_unguarded(c, amount) ==
    LET conv == to_u64(amount) IN
    IF conv.err # "None" THEN Fail(c, conv.err)
    ELSE
      LET amt == conv.val IN
      IF ~(c.available >= amt) THEN Fail(c, "InsufficientFunds")
      ELSE
        LET c1 == [c EXCEPT !.available = Wrap(@ - amt)] IN
        IF Trap(c1.total - amt) THEN Panic(c1)
        ELSE Done([c1 EXCEPT !.total = Wrap(@ - amt)])

withdraw(c, amount) ==
    LET conv == to_u64(amount) IN
    IF conv.err # "None" THEN Fail(c, conv.err)
    ELSE IF c.locked THEN Fail(c, "AccountLocked")
    ELSE
      LET amt == conv.val IN
      IF ~(c.available >= amt) THEN Fail(c, "InsufficientFunds")
      ELSE
        LET c1 == [c EXCEPT !.available = Wrap(@ - amt)] IN
        IF Trap(c1.total - amt) THEN Panic(c1)
        ELSE Done([c1 EXCEPT !.total = Wrap(@ - amt)])


\* dispute marking the deposit before it has checked the funds.
dispute_marks_first(c, tx_id) ==
    IF tx_id \notin DOMAIN c.deposits THEN Fail(c, "DepositNotFound")
    ELSE
      LET d == c.deposits[tx_id] IN
      IF d.state # "Ok" THEN Fail(c, "InvalidDepositState")
      ELSE
        LET c0 == [c EXCEPT !.deposits[tx_id].state = "Disputed"] IN
        IF ~(c0.available >= d.amount) THEN Fail(c0, "InsufficientFunds")
        ELSE
          LET c1 == [c0 EXCEPT !.available = Wrap(@ - d.amount)] IN
          IF Trap(c1.held + d.amount) THEN Panic(c1)
          ELSE Done([c1 EXCEPT !.held = Wrap(@ + d.amount)])

\* dispute freezing the account as a chargeback does.
dispute_locks(c, tx_id) ==
    IF tx_id \notin DOMAIN c.deposits THEN Fail(c, "DepositNotFound")
    ELSE
      LET d == c.deposits[tx_id] IN
      IF d.state # "Ok" THEN Fail(c, "InvalidDepositState")
      ELSE IF ~(c.available >= d.amount) THEN Fail(c, "InsufficientFunds")
      ELSE
        LET c1 == [c EXCEPT !.available = Wrap(@ - d.amount)] IN
        IF Trap(c1.held + d.amount) THEN Panic(c1)
        ELSE Done([c1 EXCEPT !.held = Wrap(@ + d.amount),
                             !.deposits[tx_id].state = "Disputed",
                             !.locked = TRUE])

\* dispute without its check of the deposit's state.
dispute_again(c, tx_id) ==
    IF tx_id \notin DOMAIN c.deposits THEN Fail(c, "DepositNotFound")
    ELSE
      LET d == c.deposits[tx_id] IN
      IF ~(c.available >= d.amount) THEN Fail(c, "InsufficientFunds")
      ELSE
        LET c1 == [c EXCEPT !.available = Wrap(@ - d.amount)] IN
        IF Trap(c1.held + d.amount) THEN Panic(c1)
        ELSE Done([c1 EXCEPT !.held = Wrap(@ + d.amount),
                             !.deposits[tx_id].state = "Disputed"])

dispute(c, tx_id) ==
    IF tx_id \notin DOMAIN c.deposits THEN Fail(c, "DepositNotFound")
    ELSE
      LET d == c.deposits[tx_id] IN
      IF d.state # "Ok" THEN Fail(c, "InvalidDepositState")
      ELSE IF ~(c.available >= d.amount) THEN Fail(c, "InsufficientFunds")
      ELSE
        LET c1 == [c EXCEPT !.available = Wrap(@ - d.amount)] IN
        IF Trap(c1.held + d.amount) THEN Panic(c1)
        ELSE Done([c1 EXCEPT !.held = Wrap(@ + d.amount),
                             !.deposits[tx_id].state = "Disputed"])


\* resolve refusing a locked account, as withdraw and chargeback do.
resolve_guarded(c, tx_id) ==
    IF c.locked THEN Fail(c, "AccountLocked")
    ELSE IF tx_id \notin DOMAIN c.deposits THEN Fail(c, "DepositNotFound")
    ELSE
      LET d == c.deposits[tx_id] IN
      IF d.state # "Disputed" THEN Fail(c, "InvalidDepositState")
      ELSE IF Trap(c.available + d.amount) THEN Panic(c)
      ELSE
        LET c1 == [c EXCEPT !.available = Wrap(@ + d.amount)] IN
        IF Trap(c1.held - d.amount) THEN Panic(c1)
        ELSE Done([c1 EXCEPT !.held = Wrap(@ - d.amount),
                             !.deposits[tx_id].state = "Ok"])

\* resolve releasing the funds without marking the deposit Ok again.
resolve_keeps_state(c, tx_id) ==
    IF tx_id \notin DOMAIN c.deposits THEN Fail(c, "DepositNotFound")
    ELSE
      LET d == c.deposits[tx_id] IN
      IF d.state # "Disputed" THEN Fail(c, "InvalidDepositState")
      ELSE IF Trap(c.available + d.amount) THEN Panic(c)
      ELSE
        LET c1 == [c EXCEPT !.available = Wrap(@ + d.amount)] IN
        IF Trap(c1.held - d.amount) THEN Panic(c1)
        ELSE Done([c1 EXCEPT !.held = Wrap(@ - d.amount)])

resolve(c, tx_id) ==
    IF tx_id \notin DOMAIN c.deposits THEN Fail(c, "DepositNotFound")
    ELSE
      LET d == c.deposits[tx_id] IN
      IF d.state # "Disputed" THEN Fail(c, "InvalidDepositState")
      ELSE IF Trap(c.available + d.amount) THEN Panic(c)
      ELSE
        LET c1 == [c EXCEPT !.available = Wrap(@ + d.amount)] IN
        IF Trap(c1.held - d.amount) THEN Panic(c1)
        ELSE Done([c1 EXCEPT !.held = Wrap(@ - d.amount),
                             !.deposits[tx_id].state = "Ok"])


\* chargeback looking the deposit up before it checks the lock.
chargeback_lookup_first(c, tx_id) ==
    IF tx_id \notin DOMAIN c.deposits THEN Fail(c, "DepositNotFound")
    ELSE IF c.locked THEN Fail(c, "AccountLocked")
    ELSE
      LET d == c.deposits[tx_id] IN
      IF d.state # "Disputed" THEN Fail(c, "InvalidDepositState")
      ELSE IF ~(c.total >= d.amount) THEN Fail(c, "InsufficientFunds")
      ELSE
        LET c1 == [c EXCEPT !.total = Wrap(@ - d.amount)] IN
        IF Trap(c1.held - d.amount) THEN Panic(c1)
        ELSE Done([c1 EXCEPT !.held = Wrap(@ - d.amount),
                             !.deposits[tx_id].state = "ChargedBack",
                             !.locked = TRUE])

\* chargeback without its check of the lock.
chargeback_unguarded(c, tx_id) ==
    IF tx_id \notin DOMAIN c.deposits THEN Fail(c, "DepositNotFound")
    ELSE
      LET d == c.deposits[tx_id] IN
      IF d.state # "Disputed" THEN Fail(c, "InvalidDepositState")
      ELSE IF ~(c.total >= d.amount) THEN Fail(c, "InsufficientFunds")
      ELSE
        LET c1 == [c EXCEPT !.total = Wrap(@ - d.amount)] IN
        IF Trap(c1.held - d.amount) THEN Panic(c1)
        ELSE Done([c1 EXCEPT !.held = Wrap(@ - d.amount),
                             !.deposits[tx_id].state = "ChargedBack",
                             !.locked = TRUE])

chargeback(c, tx_id) ==
    IF c.locked THEN Fail(c, "AccountLocked")
    ELSE IF tx_id \notin DOMAIN c.deposits THEN Fail(c, "DepositNotFound")
    ELSE
      LET d == c.deposits[tx_id] IN
      IF d.state # "Disputed" THEN Fail(c, "InvalidDepositState")
      ELSE IF ~(c.total >= d.amount) THEN Fail(c, "InsufficientFunds")
      ELSE
        LET c1 == [c EXCEPT !.total = Wrap(@ - d.amount)] IN
        IF Trap(c1.held - d.amount) THEN Panic(c1)
        ELSE Done([c1 EXCEPT !.held = Wrap(@ - d.amount),
                             !.deposits[tx_id].state = "ChargedBack",
                             !.locked = TRUE])

\* -------------------------------------------------------------------- Tx
AmountTypes == {"Deposit", "Withdrawal"}
RefTypes == {"Dispute", "Resolve", "Chargeback"}

\* The rows that deserialize to a Tx.
Txs ==
    [tx_type : AmountTypes, amount : Amount, client_id : ClientIds, tx_id : TxIds]
    \cup [tx_type : RefTypes, client_id : ClientIds, tx_id : TxIds]

\* The Client operation a transaction names.
apply(c, tx) ==
    CASE tx.tx_type = "Deposit" -> deposit(c, tx.tx_id, tx.amount)
      [] tx.tx_type = "Withdrawal" -> withdraw(c, tx.amount)
      [] tx.tx_type = "Dispute" -> dispute(c, tx.tx_id)
      [] tx.tx_type = "Resolve" -> resolve(c, tx.tx_id)
      [] tx.tx_type = "Chargeback" -> chargeback(c, tx.tx_id)


\* process with HashMap::insert in place of entry().or_insert(): a deposit
\* starts the client's account afresh.
process_insert(tx, cs) ==
    IF tx.tx_type # "Deposit" /\ tx.client_id \notin DOMAIN cs
    THEN [res |-> "AccountNotFound", clients |-> cs, panic |-> FALSE]
    ELSE
      LET cs1 == IF tx.tx_type = "Deposit"
                 THEN Insert(cs, tx.client_id, create(tx.client_id))
                 ELSE cs
          r == apply(cs1[tx.client_id], tx)
      IN [res |-> r.res,
          clients |-> [cs1 EXCEPT ![tx.client_id] = r.acct],
          panic |-> r.panic]

\* process looking the account up under the transaction id in place of the
\* client id.
process_keyed_by_tx(tx, cs) ==
    IF tx.tx_type # "Deposit" /\ tx.tx_id \notin DOMAIN cs
    THEN [res |-> "AccountNotFound", clients |-> cs, panic |-> FALSE]
    ELSE
      LET cs1 == IF tx.tx_id \in DOMAIN cs THEN cs
                 ELSE Insert(cs, tx.tx_id, create(tx.tx_id))
          r == apply(cs1[tx.tx_id], tx)
      IN [res |-> r.res,
          clients |-> [cs1 EXCEPT ![tx.tx_id] = r.acct],
          panic |-> r.panic]

\* Tx::process: a deposit finds or creates the client's account, every
\* other transaction needs it to exist; then the operation is applied.
process(tx, cs) ==
    IF tx.tx_type # "Deposit" /\ tx.client_id \notin DOMAIN cs
    THEN [res |-> "AccountNotFound", clients |-> cs, panic |-> FALSE]
    ELSE
      LET cs1 == IF tx.client_id \in DOMAIN cs THEN cs
                 ELSE Insert(cs, tx.client_id, create(tx.client_id))
          r == apply(cs1[tx.client_id], tx)
      IN [res |-> r.res,
          clients |-> [cs1 EXCEPT ![tx.client_id] = r.acct],
          panic |-> r.panic]

\* ---------------------------------------------------------------- Engine
\* A row of the input as the csv reader hands it over: a Tx, or an error.
Malformed == [tx_type |-> "Malformed"]

\* Engine::process_row
process_row(result, cs) ==
    IF result = Malformed
    THEN [res |-> "ParseError", clients |-> cs, panic |-> FALSE]
    ELSE process(result, cs)

\* No amount is being converted.
Idle == [stage |-> "idle"]

Init ==
    /\ clients = <<>>
    /\ rows = 0
    /\ pc = "reading"
    /\ overflow_checks \in BOOLEAN
    /\ last = [res |-> "None"]
    /\ conversion = Idle

\* One turn of the loop of Engine::process_file on the row `result`.
Row(result) ==
    /\ pc = "reading"
    /\ rows < MaxRows
    /\ LET r == process_row(result, clients) IN
         /\ clients' = r.clients
         /\ pc' = IF r.panic THEN "panicked" ELSE "reading"
         /\ last' = [res |-> r.res]
    /\ rows' = rows + 1
    /\ UNCHANGED <<overflow_checks, conversion>>

RowDeposit == \E tx \in Txs : tx.tx_type = "Deposit" /\ Row(tx)
RowWithdrawal == \E tx \in Txs : tx.tx_type = "Withdrawal" /\ Row(tx)
RowDispute == \E tx \in Txs : tx.tx_type = "Dispute" /\ Row(tx)
RowResolve == \E tx \in Txs : tx.tx_type = "Resolve" /\ Row(tx)
RowChargeback == \E tx \in Txs : tx.tx_type = "Chargeback" /\ Row(tx)
RowMalformed == Row(Malformed)

\* Engine::run: the input is exhausted and the accounts are written out.
Output ==
    /\ pc = "reading"
    /\ pc' = "done"
    /\ UNCHANGED <<clients, rows, overflow_checks, last, conversion>>

Next ==
    \/ RowDeposit
    \/ RowWithdrawal
    \/ RowDispute
    \/ RowResolve
    \/ RowChargeback
    \/ RowMalformed
    \/ Output

Spec == Init /\ [][Next]_vars

\* ------------------------------------------------- one account by itself
\* The client whose account is taken by itself.
TheClient == CHOOSE c \in ClientIds : TRUE

\* One Client, as Client::create makes it, and a sequence of calls of its
\* operations; `rows` counts the calls and `last` keeps the call made last
\* (the operation and its arguments) with the Result it returned.
ClientInit ==
    /\ clients = [c \in {TheClient} |-> create(c)]
    /\ rows = 0
    /\ pc = "reading"
    /\ overflow_checks \in BOOLEAN
    /\ last = [res |-> "None", op |-> "None", tx |-> Malformed]
    /\ conversion = Idle

\* The operation `tx` names is called on the account.
Call(tx) ==
    /\ pc = "reading"
    /\ rows < MaxOps
    /\ tx.client_id = TheClient
    /\ LET r == apply(clients[TheClient], tx) IN
         /\ clients' = [clients EXCEPT ![TheClient] = r.acct]
         /\ pc' = IF r.panic THEN "panicked" ELSE "reading"
         /\ last' = [res |-> r.res, op |-> tx.tx_type, tx |-> tx]
    /\ rows' = rows + 1
    /\ UNCHANGED <<overflow_checks, conversion>>

CallDeposit == \E tx \in Txs : tx.tx_type = "Deposit" /\ Call(tx)
CallWithdraw == \E tx \in Txs : tx.tx_type = "Withdrawal" /\ Call(tx)
CallDispute == \E tx \in Txs : tx.tx_type = "Dispute" /\ Call(tx)
CallResolve == \E tx \in Txs : tx.tx_type = "Resolve" /\ Call(tx)
CallChargeback == \E tx \in Txs : tx.tx_type = "Chargeback" /\ Call(tx)

ClientNext ==
    \/ CallDeposit
    \/ CallWithdraw
    \/ CallDispute
    \/ CallResolve
    \/ CallChargeback

ClientSpec == ClientInit /\ [][ClientNext]_vars

\* ------------------------------------------------ the conversions of Amount
\* An amount field of the input, or a balance word, taken through
\* deserialization, to_u64, from_u64 and format, one call at a time.
AmountInit ==
    /\ clients = <<>>
    /\ rows = 0
    /\ pc = "reading"
    /\ overflow_checks \in BOOLEAN
    /\ last = [res |-> "None"]
    /\ conversion \in [stage : {"text"}, text : Texts]
                      \cup [stage : {"word"}, word : 0 .. U64Max]

\* A row is deserialized: its amount field becomes an Amount.
Deserialize ==
    /\ conversion.stage = "text"
    /\ conversion' = [stage |-> "amount", from |-> conversion,
                      amount |-> parse(conversion.text)]
    /\ UNCHANGED <<clients, rows, pc, overflow_checks, last>>

\* An Amount is made of a balance word.
FromU64 ==
    /\ conversion.stage = "word"
    /\ conversion' = [stage |-> "amount", from |-> conversion,
                      amount |-> from_u64(conversion.word)]
    /\ UNCHANGED <<clients, rows, pc, overflow_checks, last>>

\* deposit and withdraw turn the Amount into a count of minor units.
ToU64 ==
    /\ conversion.stage = "amount"
    /\ conversion' = [stage |-> "units", from |-> conversion.from,
                      units |-> to_u64(conversion.amount)]
    /\ UNCHANGED <<clients, rows, pc, overflow_checks, last>>

\* A count of minor units is written out.
Format ==
    /\ conversion.stage = "units"
    /\ conversion.units.err = "None"
    /\ conversion' = [stage |-> "formatted", from |-> conversion.from,
                      units |-> conversion.units,
                      out |-> format(conversion.units.val)]
    /\ UNCHANGED <<clients, rows, pc, overflow_checks, last>>

AmountNext ==
    \/ Deserialize
    \/ FromU64
    \/ ToU64
    \/ Format

AmountSpec == AmountInit /\ [][AmountNext]_vars

\* ======================================================================
\* Properties
\* ======================================================================
\* The step from the current state to the next one is the loop handling the
\* row `tx`.
Handled(tx) == Row(tx)

\* A Result that is an error returned by one of the five Client operations.
AccountErrors ==
    {"NegativeAmount", "ConversionError", "AccountLocked", "InsufficientFunds",
     "DepositNotFound", "InvalidDepositState"}

\* A Result that is an error of a row, whatever raised it.
RowErrors == AccountErrors \cup {"AccountNotFound", "ParseError"}

\* ---------------------------------------------------------------- C1
\* C1: in every state the run can observe (any state but the unwinding of a
\* panic), every account has total = available + held.
C1_TotalIsAvailablePlusHeld ==
    pc # "panicked" =>
        \A c \in DOMAIN clients :
            clients[c].total = clients[c].available + clients[c].held

\* ---------------------------------------------------------------- C2
\* The subtractions an operation performs never take more than there is.
SubtractionsFit(tx, c) ==
    CASE tx.tx_type = "Deposit" -> TRUE
      [] tx.tx_type = "Withdrawal" ->
            /\ to_u64(tx.amount).val <= c.available
            /\ to_u64(tx.amount).val <= c.total
      [] tx.tx_type = "Dispute" -> c.deposits[tx.tx_id].amount <= c.available
      [] tx.tx_type = "Resolve" -> c.deposits[tx.tx_id].amount <= c.held
      [] tx.tx_type = "Chargeback" ->
            /\ c.deposits[tx.tx_id].amount <= c.total
            /\ c.deposits[tx.tx_id].amount <= c.held

\* C2: whenever an operation passes its checks and goes on to change the
\* balances, each value it subtracts is at most the balance it is subtracted
\* from, so that no balance drops below zero.
C2_NoSubtractionUnderflows ==
    [][\A tx \in Txs :
          (last'.res \in {"Ok", "Panic"} /\ tx.tx_type # "Deposit" /\ Handled(tx))
              => SubtractionsFit(tx, clients[tx.client_id])
      ]_vars

\* ---------------------------------------------------------------- C3
\* C3: a step in which a Client operation returned an error leaves every
\* account as it was before the call; the account a deposit was called on
\* for a new client is the one Client::create made.
C3_FailureLeavesAccount ==
    [][last'.res \in AccountErrors =>
          \A c \in DOMAIN clients' :
              clients'[c] = IF c \in DOMAIN clients THEN clients[c] ELSE create(c)
      ]_vars

\* An operation has failed on an account that holds funds and a deposit.
C3_Witness ==
    /\ last.res = "InsufficientFunds"
    /\ \E c \in DOMAIN clients :
          clients[c].total > 0 /\ DOMAIN clients[c].deposits # {}

\* ---------------------------------------------------------------- C4
\* The moves of a deposit's state from one step to the next.
StateEdges ==
    {<<"Ok", "Ok">>, <<"Ok", "Disputed">>, <<"Disputed", "Disputed">>,
     <<"Disputed", "Ok">>, <<"Disputed", "ChargedBack">>,
     <<"ChargedBack", "ChargedBack">>}

\* C4: the state of the record under a transaction id only moves
\* Ok -> Disputed -> {Ok, ChargedBack}; a record that is ChargedBack is never
\* changed again, and a dispute or resolve that names it fails.
C4_ChargedBackIsTerminal ==
    [][\A c \in DOMAIN clients : \A t \in DOMAIN clients[c].deposits :
          LET old == clients[c].deposits[t]
              new == clients'[c].deposits[t]
          IN /\ <<old.state, new.state>> \in StateEdges
             /\ old.state = "ChargedBack" =>
                   /\ new = old
                   /\ dispute(clients[c], t).res # "Ok"
                   /\ resolve(clients[c], t).res # "Ok"
      ]_vars

\* ---------------------------------------------------------------- C5
\* An account is locked exactly from its successful chargeback on (C7), so
\* "after a chargeback has succeeded" is read off the locked flag.

\* C5 as stated: on a locked account every withdraw and every chargeback
\* that is handled returns AccountLocked.
C5_LockedAlwaysAccountLocked ==
    [][\A tx \in Txs :
          (/\ tx.tx_type \in {"Withdrawal", "Chargeback"}
           /\ tx.client_id \in DOMAIN clients
           /\ clients[tx.client_id].locked
           /\ Handled(tx))
          => last'.res = "AccountLocked"
      ]_vars

\* C5 amended: while rows are being handled, on a locked account every
\* chargeback returns AccountLocked,
\* and every withdraw fails: with the error of the amount's conversion when
\* the amount does not convert, with AccountLocked when it does.
C5_LockedRefusesDebits ==
    pc = "reading" =>
    \A c \in DOMAIN clients :
        clients[c].locked =>
            /\ \A t \in TxIds : chargeback(clients[c], t).res = "AccountLocked"
            /\ \A a \in Amount :
                  LET r == withdraw(clients[c], a) IN
                  /\ r.res = IF to_u64(a).err # "None" THEN to_u64(a).err
                             ELSE "AccountLocked"
                  /\ r.acct = clients[c]

\* A withdrawal or chargeback was refused by the lock of the only account
\* there is.
C5_Witness ==
    /\ last.res = "AccountLocked"
    /\ \E c \in DOMAIN clients : DOMAIN clients = {c} /\ clients[c].locked

\* ---------------------------------------------------------------- C6
\* Two outcomes of one call on two accounts that differ in the lock alone:
\* the same Result, the same change, and the lock of each left as it was.
SameButLock(ra, rb, a, b) ==
    /\ ra.acct.locked = a.locked
    /\ rb = [ra EXCEPT !.acct.locked = b.locked]

\* C6: while rows are being handled, for every account and the account that
\* differs from
\* it in the locked flag alone, each deposit, dispute and resolve gives the
\* same Result and the same change, and leaves locked as it was.
C6_LockDoesNotBlock ==
    pc = "reading" =>
    \A c \in DOMAIN clients :
        LET a == clients[c]
            b == [a EXCEPT !.locked = ~a.locked]
        IN \A t \in TxIds :
              /\ SameButLock(dispute(a, t), dispute(b, t), a, b)
              /\ SameButLock(resolve(a, t), resolve(b, t), a, b)
              /\ \A m \in Amount :
                    SameButLock(deposit(a, t, m), deposit(b, t, m), a, b)

\* The only account there is is locked, and the row handled last succeeded
\* and left it funds: a deposit made after the chargeback.
C6_Witness ==
    /\ last.res = "Ok"
    /\ \E c \in DOMAIN clients :
          DOMAIN clients = {c} /\ clients[c].locked /\ clients[c].available > 0

\* ---------------------------------------------------------------- C7
\* C7: no account is ever removed; a new account is not locked; an account
\* that is locked stays locked; and an account becomes locked only in a step
\* that handles a chargeback for it, which succeeds.
C7_LockMonotonic ==
    [][/\ DOMAIN clients \subseteq DOMAIN clients'
       /\ \A c \in DOMAIN clients' :
             IF c \in DOMAIN clients
             THEN /\ clients[c].locked => clients'[c].locked
                  /\ (~clients[c].locked /\ clients'[c].locked) =>
                        /\ last'.res = "Ok"
                        /\ \E tx \in Txs : /\ tx.tx_type = "Chargeback"
                                            /\ tx.client_id = c
                                            /\ Handled(tx)
             ELSE ~clients'[c].locked
      ]_vars

\* A locked account on which a later row has been handled: a dispute or
\* resolve of its charged-back deposit, which was refused.
C7_Witness ==
    /\ last.res = "InvalidDepositState"
    /\ \E c \in DOMAIN clients : DOMAIN clients = {c} /\ clients[c].locked

\* ---------------------------------------------------------------- C8
\* C8: a row whose handling returned an error changes nothing in the
\* ledger: the same clients have an account and every account is as it was.
C8_FailedRowChangesNothing ==
    [][(rows' # rows /\ last'.res \in RowErrors) => clients' = clients]_vars

\* ---------------------------------------------------------------- C9
\* The account of a client that has just been created.
NewAccount(c) ==
    [client_id |-> c, available |-> 0, held |-> 0, total |-> 0,
     locked |-> FALSE, deposits |-> <<>>]

\* C9: while rows are being handled, for a client without an account every
\* transaction but a deposit
\* returns AccountNotFound and leaves the ledger as it is, and a deposit adds
\* one account, the new account with the deposit applied to it; for a client
\* with an account the operation is applied to that account as it stands.
\* No other account changes.
C9_Routing ==
    pc = "reading" =>
    \A tx \in Txs :
        LET c == tx.client_id
            before == IF c \in DOMAIN clients THEN clients[c] ELSE NewAccount(c)
            d == apply(before, tx)
        IN process(tx, clients) =
              IF c \notin DOMAIN clients /\ tx.tx_type # "Deposit"
              THEN [res |-> "AccountNotFound", clients |-> clients,
                    panic |-> FALSE]
              ELSE [res |-> d.res,
                    clients |-> [o \in DOMAIN clients \cup {c} |->
                                    IF o = c THEN d.acct ELSE clients[o]],
                    panic |-> d.panic]

\* A second deposit has been added to the account the first one created,
\* while a transaction for a client without an account was turned away.
C9_Witness ==
    /\ last.res = "Ok"
    /\ rows = 2
    /\ \E c \in DOMAIN clients :
          /\ Cardinality(DOMAIN clients[c].deposits) = 2
          /\ clients[c].total > 0
    /\ DOMAIN clients # ClientIds

\* ---------------------------------------------------------------- C10
\* C10 as stated: on an existing account a dispute, resolve or chargeback
\* that names an id without a deposit record returns DepositNotFound.
C10_UnknownIdDepositNotFound ==
    [][\A tx \in Txs :
          (/\ tx.tx_type \in RefTypes
           /\ tx.client_id \in DOMAIN clients
           /\ tx.tx_id \notin DOMAIN clients[tx.client_id].deposits
           /\ Handled(tx))
          => last'.res = "DepositNotFound"
      ]_vars

\* C10 amended: while rows are being handled, on every account a dispute or
\* resolve of an id without a record returns
\* DepositNotFound; a chargeback of such an id returns DepositNotFound on an
\* account that is not locked and AccountLocked on a locked one.
C10_UnknownIdRefused ==
    pc = "reading" =>
    \A c \in DOMAIN clients : \A t \in TxIds \ DOMAIN clients[c].deposits :
        /\ dispute(clients[c], t).res = "DepositNotFound"
        /\ resolve(clients[c], t).res = "DepositNotFound"
        /\ chargeback(clients[c], t).res =
              IF clients[c].locked THEN "AccountLocked" ELSE "DepositNotFound"

\* A dispute, resolve or chargeback was turned away for naming an id without
\* a record, on the only account there is, which holds a deposit under
\* another id.
C10_Witness ==
    /\ last.res = "DepositNotFound"
    /\ \E c \in DOMAIN clients :
          /\ DOMAIN clients = {c}
          /\ clients[c].total > 0
          /\ DOMAIN clients[c].deposits # TxIds

\* ---------------------------------------------------------------- C11
\* C11: while rows are being handled, on every account a dispute of a
\* deposit in state Ok fails with InsufficientFunds, changing nothing, when
\* available < the deposit's amount; otherwise it succeeds, available goes
\* down and held goes up by the amount, total and the lock stay, and the
\* deposit becomes Disputed.
C11_DisputeMovesFunds ==
    pc = "reading" =>
    \A c \in DOMAIN clients : \A t \in DOMAIN clients[c].deposits :
        LET a == clients[c]
            d == a.deposits[t]
        IN d.state = "Ok" =>
              dispute(a, t) =
                 IF a.available < d.amount THEN Fail(a, "InsufficientFunds")
                 ELSE Done([a EXCEPT !.available = @ - d.amount,
                                     !.held = @ + d.amount,
                                     !.deposits[t].state = "Disputed"])

\* ---------------------------------------------------------------- C12
\* C12 as stated: on every account, a dispute of a deposit that is Disputed
\* or ChargedBack returns InvalidDepositState; a chargeback of a deposit that
\* is ChargedBack returns InvalidDepositState or AccountLocked; a resolve or
\* chargeback of a deposit in state Ok returns InvalidDepositState.
C12_RepeatInvalidDepositState ==
    pc = "reading" =>
    \A c \in DOMAIN clients : \A t \in DOMAIN clients[c].deposits :
        LET a == clients[c]
            st == a.deposits[t].state
        IN /\ st \in {"Disputed", "ChargedBack"} =>
                 dispute(a, t).res = "InvalidDepositState"
           /\ st = "ChargedBack" =>
                 chargeback(a, t).res \in {"InvalidDepositState", "AccountLocked"}
           /\ st = "Ok" =>
                 /\ resolve(a, t).res = "InvalidDepositState"
                 /\ chargeback(a, t).res = "InvalidDepositState"

\* C12 amended: as stated, but a chargeback of a deposit in state Ok returns
\* InvalidDepositState on an account that is not locked and AccountLocked on
\* a locked one.
C12_RepeatRefused ==
    pc = "reading" =>
    \A c \in DOMAIN clients : \A t \in DOMAIN clients[c].deposits :
        LET a == clients[c]
            st == a.deposits[t].state
        IN /\ st \in {"Disputed", "ChargedBack"} =>
                 dispute(a, t).res = "InvalidDepositState"
           /\ st = "ChargedBack" =>
                 chargeback(a, t).res \in {"InvalidDepositState", "AccountLocked"}
           /\ st = "Ok" =>
                 /\ resolve(a, t).res = "InvalidDepositState"
                 /\ chargeback(a, t).res =
                       IF a.locked THEN "AccountLocked"
                       ELSE "InvalidDepositState"

\* A chargeback has just succeeded on an account that holds another deposit
\* in state Ok: the account is locked, one record is ChargedBack, one is Ok.
C12_Witness ==
    /\ last.res = "Ok"
    /\ \E c \in DOMAIN clients :
          /\ clients[c].locked
          /\ \E t, u \in DOMAIN clients[c].deposits :
                /\ clients[c].deposits[t].state = "ChargedBack"
                /\ clients[c].deposits[u].state = "Ok"

\* ---------------------------------------------------------------- C13
\* C13: while rows are being handled, on every account that is not locked a
\* withdraw of an amount >= 0 that is a count of minor units succeeds exactly
\* when the amount is at most available, and fails with InsufficientFunds,
\* changing nothing, otherwise; the comparison is with available, whatever
\* is held.  On success available and total each go down by the amount and
\* held, locked and the deposit records stay.
C13_WithdrawFromAvailable ==
    pc = "reading" =>
    \A c \in DOMAIN clients : \A m \in Amount :
        LET a == clients[c]
            amt == to_u64(m)
        IN (~a.locked /\ m.int >= 0 /\ amt.err = "None") =>
              withdraw(a, m) =
                 IF amt.val <= a.available
                 THEN Done([a EXCEPT !.available = @ - amt.val,
                                     !.total = @ - amt.val])
                 ELSE Fail(a, "InsufficientFunds")

\* ---------------------------------------------------------------- C14
\* C14: while rows are being handled, on every account that is not locked a
\* chargeback of a deposit that is Disputed succeeds; total and held each go
\* down by the deposit's amount, available stays, the deposit becomes
\* ChargedBack, the account becomes locked, and every other deposit record
\* stays as it was.
C14_ChargebackRemovesHeld ==
    pc = "reading" =>
    \A c \in DOMAIN clients : \A t \in DOMAIN clients[c].deposits :
        LET a == clients[c]
            d == a.deposits[t]
        IN (~a.locked /\ d.state = "Disputed") =>
              chargeback(a, t) =
                 Done([a EXCEPT !.total = @ - d.amount,
                                !.held = @ - d.amount,
                                !.deposits[t].state = "ChargedBack",
                                !.locked = TRUE])

\* ---------------------------------------------------------------- C15
\* C15: while rows are being handled, on every account on which the dispute
\* of a transaction id succeeds, the resolve of that id that follows it
\* succeeds too and leaves the account exactly as it was before the dispute
\* (available, held, total, locked, the deposit in state Ok and every other
\* record); the dispute of the id then succeeds again, with the same effect.
C15_DisputeResolveIdentity ==
    pc = "reading" =>
    \A c \in DOMAIN clients : \A t \in TxIds :
        LET a == clients[c]
            disputed == dispute(a, t)
            resolved == resolve(disputed.acct, t)
        IN disputed.res = "Ok" =>
              /\ resolved = Done(a)
              /\ dispute(resolved.acct, t) = disputed

\* An account that holds funds for a dispute under way and on which another
\* deposit, of an amount above zero, can be disputed.
C15_Witness ==
    /\ last.res = "Ok"
    /\ \E c \in DOMAIN clients : \E t \in DOMAIN clients[c].deposits :
          /\ clients[c].held > 0
          /\ clients[c].deposits[t].amount > 0
          /\ dispute(clients[c], t).res = "Ok"

\* ---------------------------------------------------------------- C16
\* C16: rows are handled one at a time in the order of the input, and the
\* handling of a row, whatever it returns, leaves the loop reading: the next
\* row is attempted, and only the end of the input ends the loop.
C16_EveryRowLeavesLoopReading ==
    [][/\ rows' \in {rows, rows + 1}
       /\ rows' = rows + 1 => (pc = "reading" /\ pc' = "reading")
       /\ pc' # pc => (pc = "reading" /\ pc' = "done" /\ rows' = rows)
      ]_vars

\* ---------------------------------------------------------------- C17
\* C17: while rows are being handled, whatever row comes next and whatever
\* it returns, the account of every client other than the one the row names
\* is left exactly as it is (balances, lock, deposit records), no account
\* but that client's is added and none is removed; a row that does not
\* parse changes no account.  So a dispute, resolve or chargeback of client
\* B that names an id deposited by client A alone leaves A's account alone.
C17_OtherAccountsUntouched ==
    pc = "reading" =>
    /\ process_row(Malformed, clients).clients = clients
    /\ \A tx \in Txs :
          LET after == process_row(tx, clients).clients
          IN /\ DOMAIN clients \subseteq DOMAIN after
             /\ DOMAIN after \subseteq DOMAIN clients \cup {tx.client_id}
             /\ \A b \in DOMAIN clients \ {tx.client_id} : after[b] = clients[b]

\* Two clients have an account, each with a deposit under an id the other
\* has no record of, and a dispute, resolve or chargeback that named an id
\* its client has no deposit under has just been turned away.
C17_Witness ==
    /\ last.res = "DepositNotFound"
    /\ DOMAIN clients = ClientIds
    /\ \A c \in DOMAIN clients : clients[c].total > 0
    /\ \A c, b \in DOMAIN clients :
          c # b => DOMAIN clients[c].deposits \cap DOMAIN clients[b].deposits = {}

\* ---------------------------------------------------------------- C18
\* The same amount written with exactly Digits digits after the point.
FourDigitForm(text) ==
    [text EXCEPT !.frac = [i \in 1 .. Digits |->
                              IF i <= Len(text.frac) THEN text.frac[i] ELSE 0]]

\* C18: a balance word made an Amount and converted back is the same word;
\* an amount field that is not negative and has exactly four digits after
\* the point is written out, once converted, as it was read; and an amount
\* field that is not negative and has fewer than four digits after the
\* point converts to the count of minor units of its four-digit form.
C18_AmountRoundTrip ==
    conversion.stage \in {"units", "formatted"} =>
        /\ conversion.from.stage = "word" =>
              conversion.units = [err |-> "None", val |-> conversion.from.word]
        /\ (/\ conversion.stage = "formatted"
            /\ conversion.from.stage = "text"
            /\ ~conversion.from.text.neg
            /\ Len(conversion.from.text.frac) = Digits) =>
              conversion.out = conversion.from.text
        /\ (/\ conversion.from.stage = "text"
            /\ ~conversion.from.text.neg
            /\ Len(conversion.from.text.frac) < Digits) =>
              conversion.units =
                 to_u64(parse(FourDigitForm(conversion.from.text)))

\* ---------------------------------------------------------------- C19
\* The sum of the amounts of the deposit records of `c` under the ids `ids`.
RECURSIVE SumOfAmounts(_, _)
SumOfAmounts(c, ids) ==
    IF ids = {} THEN 0
    ELSE LET t == CHOOSE x \in ids : TRUE
         IN c.deposits[t].amount + SumOfAmounts(c, ids \ {t})

\* The deposit records of `c` that are Disputed.
DisputedIds(c) == {t \in DOMAIN c.deposits : c.deposits[t].state = "Disputed"}

\* C19: in every state the run can observe, the held funds of every account
\* are the sum of the amounts of its deposit records that are Disputed; they
\* are 0 when no record is Disputed.
C19_HeldIsSumOfDisputed ==
    pc # "panicked" =>
        \A c \in DOMAIN clients :
            clients[c].held = SumOfAmounts(clients[c], DisputedIds(clients[c]))

\* ---------------------------------------------------------------- C20
\* C20: while rows are being handled, on every account a deposit of an
\* amount that converts, under an id the account has a record of already,
\* succeeds: available and total each go up by the amount, held and the
\* lock stay, and the record under the id becomes (the new amount, Ok)
\* whatever it was.  A dispute of the id that follows takes the new amount,
\* and nothing of the earlier deposit, from available to held.
C20_DuplicateDepositId ==
    pc = "reading" =>
    \A c \in DOMAIN clients : \A t \in DOMAIN clients[c].deposits :
        \A m \in Amount :
            LET a == clients[c]
                amt == to_u64(m)
                after == [a EXCEPT !.available = @ + amt.val,
                                   !.total = @ + amt.val,
                                   !.deposits[t] =
                                       [amount |-> amt.val, state |-> "Ok"]]
            IN amt.err = "None" =>
                  /\ deposit(a, t, m) = Done(after)
                  /\ dispute(after, t) =
                        Done([after EXCEPT !.available = @ - amt.val,
                                           !.held = @ + amt.val,
                                           !.deposits[t].state = "Disputed"])

\* ---------------------------------------------------------------- C21
\* C21: while rows are being handled, on every account each deposit that
\* is not refused leaves available and total at their value before plus the
\* amount, each dispute that is not refused leaves held at its value before
\* plus the deposit's amount, each resolve that is not refused leaves
\* available at its value before plus the deposit's amount, none of these
\* sums is above the largest balance word, and total is available + held,
\* all over the integers.
C21_AdditionsAreExact ==
    pc = "reading" =>
    \A c \in DOMAIN clients :
        LET a == clients[c] IN
        /\ a.total = a.available + a.held
        /\ \A t \in TxIds :
              /\ \A m \in Amount :
                    LET r == deposit(a, t, m) IN
                    r.res \notin AccountErrors =>
                        /\ r.res = "Ok"
                        /\ r.acct.available = a.available + to_u64(m).val
                        /\ r.acct.total = a.total + to_u64(m).val
                        /\ Fits(a.total + to_u64(m).val)
              /\ LET r == dispute(a, t) IN
                 r.res \notin AccountErrors =>
                     /\ r.res = "Ok"
                     /\ r.acct.held = a.held + a.deposits[t].amount
              /\ LET r == resolve(a, t) IN
                 r.res \notin AccountErrors =>
                     /\ r.res = "Ok"
                     /\ r.acct.available = a.available + a.deposits[t].amount

\* ---------------------------------------------------------------- C22
\* C22: while rows are being handled, on every account a deposit or a
\* withdraw of an amount that is zero or negative is refused and leaves the
\* account, balances and deposit records, as it was; and no deposit record
\* has the amount 0.
C22_OnlyPositiveAmounts ==
    pc = "reading" =>
    \A c \in DOMAIN clients :
        LET a == clients[c] IN
        /\ \A t \in DOMAIN a.deposits : a.deposits[t].amount > 0
        /\ \A m \in Amount :
              m.int <= 0 =>
                  /\ withdraw(a, m).res \in AccountErrors
                  /\ withdraw(a, m).acct = a
                  /\ \A t \in TxIds :
                        /\ deposit(a, t, m).res \in AccountErrors
                        /\ deposit(a, t, m).acct = a

\* ---------------------------------------------------------------- C23
\* C23: in every state the run can observe, every deposit record that is
\* Disputed has amount <= held <= total on its account; so, while rows are
\* being handled, a chargeback of it on an account that is not locked
\* succeeds, and a resolve of it succeeds and leaves held at its value
\* before minus the amount, which is not below zero.
C23_DisputedAmountIsHeld ==
    pc # "panicked" =>
    \A c \in DOMAIN clients : \A t \in DisputedIds(clients[c]) :
        LET a == clients[c]
            d == a.deposits[t]
        IN /\ d.amount <= a.held
           /\ a.held <= a.total
           /\ ~a.locked => chargeback(a, t).res = "Ok"
           /\ resolve(a, t).res = "Ok"
           /\ resolve(a, t).acct.held = a.held - d.amount

\* ---------------------------------------------------------------- C24
\* The deposit records of `c` that are ChargedBack.
ChargedBackIds(c) ==
    {t \in DOMAIN c.deposits : c.deposits[t].state = "ChargedBack"}

\* C24: over every sequence of operations on one account, a chargeback
\* that succeeds is called on an account that is not locked and locks it,
\* the account becomes locked in no other step and stays locked, so that
\* chargeback succeeds at most once; a record becomes ChargedBack only in
\* that step, so at most one record is ever ChargedBack; and on a locked
\* account every chargeback is refused with AccountLocked, while a deposit
\* that is Disputed can be resolved and never becomes ChargedBack.
C24_AtMostOneChargeback ==
    [][LET old == clients[TheClient]
           new == clients'[TheClient]
           chargedback == last'.op = "Chargeback" /\ last'.res = "Ok"
       IN /\ chargedback <=> (~old.locked /\ new.locked)
          /\ old.locked => new.locked
          /\ chargedback <=> ChargedBackIds(new) \ ChargedBackIds(old) # {}
          /\ Cardinality(ChargedBackIds(new)) <= 1
          /\ old.locked =>
                /\ \A t \in TxIds :
                      chargeback(old, t) = Fail(old, "AccountLocked")
                /\ \A t \in DisputedIds(old) :
                      /\ resolve(old, t).res = "Ok"
                      /\ new.deposits[t].state \in {"Disputed", "Ok"}
      ]_vars

\* The account was locked by the chargeback of one deposit while another
\* was Disputed, and the chargeback of that one has just been refused.
C24_Witness ==
    /\ last.res = "AccountLocked"
    /\ last.op = "Chargeback"
    /\ clients[TheClient].locked
    /\ ChargedBackIds(clients[TheClient]) # {}
    /\ DisputedIds(clients[TheClient]) # {}

\* ---------------------------------------------------------------- C25
\* What a call that returned `res` adds to the total of the account `c`:
\* the amount of a successful deposit, minus the amount of a successful
\* withdrawal, minus the amount of a deposit successfully charged back;
\* nothing for a dispute, a resolve or a call that failed.
Contribution(c, tx, res) ==
    IF res # "Ok" THEN 0
    ELSE CASE tx.tx_type = "Deposit" -> to_u64(tx.amount).val
           [] tx.tx_type = "Withdrawal" -> 0 - to_u64(tx.amount).val
           [] tx.tx_type = "Chargeback" -> 0 - c.deposits[tx.tx_id].amount
           [] OTHER -> 0

\* C25: the total of an account is 0 when it is created, and over every
\* sequence of operations each call changes it by its contribution, over
\* the integers; so in every state total is the sum of the successful
\* deposits minus the successful withdrawals minus the charged-back
\* deposits, and dispute, resolve and failed calls leave it as it is.
C25_TotalIsConserved ==
    [][clients'[TheClient].total =
          clients[TheClient].total
             + Contribution(clients[TheClient], last'.tx, last'.res)
      ]_vars

====
